---------------------------- MODULE Spec2Model ----------------------------
(***************************************************************************)
(* route-tracer: the three request handlers that turn the image oracle's   *)
(* waypoints into an animatable polyline.                                  *)
(*                                                                         *)
(*   "snap"    src/unnamed/part_001  oracle + OSRM road snapping + fallback *)
(*   "dense"   src/unnamed/part_000  oracle + interpolation below 100 pts   *)
(*   "extract" src/api/extract.js    oracle + interpolation below 50 pts    *)
(*                                                                         *)
(* One request is followed from its arrival to its response.  The handler  *)
(* is an async function: it is suspended at the oracle fetch and, in the   *)
(* snap variant, at the OSRM fetch, so it runs as two or three steps.      *)
(*                                                                         *)
(* Numbers.  JavaScript numbers are modelled as exact rationals plus NaN   *)
(* and undefined.  Latitudes and longitudes of the inputs are integers in  *)
(* units of 0.001 degree, so the spacing literal 0.002 is 2 units;         *)
(* elevations are in feet.  Rounding noise of IEEE doubles is not          *)
(* modelled.                                                               *)
(***************************************************************************)
EXTENDS Integers, Sequences, FiniteSets, TLC

VARIABLES
    variant,    \* which handler file serves the request
    req,        \* the inbound request and process.env
    pc,         \* where the handler is: "start", "await_step1", "await_osrm", "done"
    step1,      \* what the oracle fetch produced (step1Response / response)
    routeInfo,  \* the parsed oracle JSON (routeInfo / routeData)
    osrm,       \* what the OSRM fetch produced (osrmResp / osrmData)
    calls,      \* outbound fetches issued so far, in order
    sent        \* responses written to res, in order

vars == <<variant, req, pc, step1, routeInfo, osrm, calls, sent>>

-----------------------------------------------------------------------------
(* JavaScript values *)

RECURSIVE GCD(_, _)
GCD(a, b) == IF b = 0 THEN a ELSE GCD(b, a % b)

Abs(x) == IF x < 0 THEN -x ELSE x

Max(a, b) == IF a >= b THEN a ELSE b

Min(a, b) == IF a <= b THEN a ELSE b

\* ceil(a / b) for a >= 0, b > 0 (Math.ceil of a quotient of integers)
CeilDiv(a, b) == (a + b - 1) \div b

NaN == [k |-> "nan", n |-> 0, d |-> 1]

Undefined == [k |-> "undef", n |-> 0, d |-> 1]

\* the number n/d in lowest terms
Num(n, d) ==
    LET g == GCD(Abs(n), Abs(d))
        s == IF d < 0 THEN -1 ELSE 1
    IN  [k |-> "num", n |-> s * (n \div g), d |-> s * (d \div g)]

Whole(n) == [k |-> "num", n |-> n, d |-> 1]

IsNum(v) == v.k = "num"

\* a + b
Add(a, b) ==
    IF IsNum(a) /\ IsNum(b)
    THEN LET l == (a.d \div GCD(a.d, b.d)) * b.d
         IN  Num(a.n * (l \div a.d) + b.n * (l \div b.d), l)
    ELSE NaN

\* a - b
Sub(a, b) ==
    IF IsNum(a) /\ IsNum(b)
    THEN Add(a, [b EXCEPT !.n = -b.n])
    ELSE NaN

\* a * b
Mul(a, b) ==
    IF IsNum(a) /\ IsNum(b)
    THEN LET g1 == GCD(Abs(a.n), b.d)
             g2 == GCD(Abs(b.n), a.d)
         IN  Num((a.n \div g1) * (b.n \div g2), (a.d \div g2) * (b.d \div g1))
    ELSE NaN

\* a <= b on numbers
Leq(a, b) == a.n * b.d <= b.n * a.d

\* !!v : undefined, NaN and 0 are falsy
Truthy(v) == IsNum(v) /\ v.n # 0

\* v || dflt
OrElse(v, dflt) == IF Truthy(v) THEN v ELSE dflt

\* a string field that is absent from the JSON
NoString == "<undefined>"

\* s || dflt : undefined and "" are falsy
StrOrElse(s, dflt) == IF s = NoString \/ s = "" THEN dflt ELSE s

\* text.substring(0, limit), by length
Substring(len, limit) == Min(len, limit)

\* a + (b - a) * t with t = s / steps
Lerp(a, b, s, steps) == Add(a, Mul(Sub(b, a), Num(s, steps)))

-----------------------------------------------------------------------------
(* Geometry.  A point is [kind, lat, lng, elev]: kind "ok" is an object or   *)
(* array whose members are read, "junk" a value whose members all read as    *)
(* undefined (a number, {} ...), "null" a null, on which a member read       *)
(* throws a TypeError.                                                       *)

Point(lat, lng, elev) == [kind |-> "ok", lat |-> lat, lng |-> lng, elev |-> elev]

JunkPoint == [kind |-> "junk", lat |-> Undefined, lng |-> Undefined, elev |-> Undefined]

NullPoint == [kind |-> "null", lat |-> Undefined, lng |-> Undefined, elev |-> Undefined]

\* some member read of some element throws
AnyNull(seq) == \E i \in 1..Len(seq) : seq[i].kind = "null"

\* nearestElev = 5300 / (x || 5300)
DefaultElevation == 5300

\* routeGeometry.length < 10
MinGeometry == 10

\* Math.max(5, ...)
MinSteps == 5

\* dist / 0.002, in units of 0.001 degree
Spacing == 2

\* Math.round(Math.sqrt(q) / Spacing) for a rational q >= 0:
\* r with (r - 1/2)^2 <= q / Spacing^2 < (r + 1/2)^2
RoundSqrtOver(q) ==
    LET N == 4 * q.n
        D == Spacing * Spacing * q.d
    IN  IF N < D THEN 0
        ELSE CHOOSE r \in 1..(N \div D + 1) :
                 /\ (2 * r - 1) * (2 * r - 1) * D <= N
                 /\ N < (2 * r + 1) * (2 * r + 1) * D

\* (b.lat - a.lat) ** 2 + (b.lng - a.lng) ** 2
SquaredDist(alat, alng, blat, blng) ==
    LET dlat == Sub(blat, alat)
        dlng == Sub(blng, alng)
    IN  Add(Mul(dlat, dlat), Mul(dlng, dlng))

\* steps = Math.max(5, Math.round(dist / 0.002)); a NaN distance makes steps
\* NaN, and the loop "s < steps" then never runs: 0 iterations
StepCount(a, b) ==
    LET q == SquaredDist(a.lat, a.lng, b.lat, b.lng)
    IN  IF IsNum(q) THEN Max(MinSteps, RoundSqrtOver(q)) ELSE 0

\* the points pushed for one pair (a, b) of waypoints, s = 0 .. steps - 1
FallbackSegment(a, b) ==
    LET steps == StepCount(a, b)
        ea == OrElse(a.elev, Whole(DefaultElevation))
        eb == OrElse(b.elev, Whole(DefaultElevation))
    IN  [s \in 1..steps |->
            Point(Lerp(a.lat, b.lat, s - 1, steps),
                  Lerp(a.lng, b.lng, s - 1, steps),
                  Lerp(ea, eb, s - 1, steps))]

RECURSIVE FallbackSegments(_, _)
FallbackSegments(waypoints, i) ==
    IF i >= Len(waypoints) THEN <<>>
    ELSE FallbackSegment(waypoints[i], waypoints[i + 1])
             \o FallbackSegments(waypoints, i + 1)

\* the final waypoint, pushed after the loop
FallbackLast(waypoints) ==
    LET w == waypoints[Len(waypoints)]
    IN  Point(w.lat, w.lng, OrElse(w.elev, Whole(DefaultElevation)))

\* the fallback: interpolate between consecutive waypoints, then push the last
FallbackInterpolate(waypoints) ==
    Append(FallbackSegments(waypoints, 1), FallbackLast(waypoints))

-----------------------------------------------------------------------------
(* Road snapping: the OSRM geometry with estimated elevations.  An OSRM     *)
(* coordinate is [kind, c0, c1]: coord[0] is the longitude, coord[1] the    *)
(* latitude.                                                                *)

Coord(c0, c1) == [kind |-> "ok", c0 |-> c0, c1 |-> c1]

JunkCoord == [kind |-> "junk", c0 |-> Undefined, c1 |-> Undefined]

NullCoord == [kind |-> "null", c0 |-> Undefined, c1 |-> Undefined]

\* the loop over waypoints: (minDist, nearestElev) after waypoints i .. end.
\* min is the squared minDist, or NaN while minDist is Infinity; d < minDist
\* is false whenever d is NaN
RECURSIVE NearestFrom(_, _, _, _, _, _)
NearestFrom(lat, lng, waypoints, i, min, elev) ==
    IF i > Len(waypoints) THEN elev
    ELSE LET wp == waypoints[i]
             d == SquaredDist(wp.lat, wp.lng, lat, lng)
             closer == IsNum(d) /\ (~IsNum(min) \/ ~Leq(min, d))
         IN  IF closer
             THEN NearestFrom(lat, lng, waypoints, i + 1, d,
                              OrElse(wp.elev, Whole(DefaultElevation)))
             ELSE NearestFrom(lat, lng, waypoints, i + 1, min, elev)

\* the scan with the waypoints taken last to first: among equally near
\* waypoints the last one wins
NearestElevLast(lat, lng, waypoints) ==
    NearestFrom(lat, lng,
                [i \in 1..Len(waypoints) |-> waypoints[Len(waypoints) + 1 - i]],
                1, NaN, Whole(DefaultElevation))

\* elevation of the nearest waypoint, 5300 when there is none
NearestElev(lat, lng, waypoints) ==
    NearestFrom(lat, lng, waypoints, 1, NaN, Whole(DefaultElevation))

\* osrmCoords.map(coord => [lat, lng, nearestElev])
AssignElevations(osrmCoords, waypoints) ==
    [i \in 1..Len(osrmCoords) |->
        LET lat == osrmCoords[i].c1
            lng == osrmCoords[i].c0
        IN  Point(lat, lng, NearestElev(lat, lng, waypoints))]

\* the 3 in the mean of a point and its two neighbours
SmoothWindow == 3

\* the smoothing loop from index i on (1-based), writing into g as it goes
RECURSIVE SmoothFrom(_, _)
SmoothFrom(g, i) ==
    IF i > Len(g) - 1 THEN g
    ELSE SmoothFrom(
             [g EXCEPT ![i].elev =
                 Mul(Add(Add(g[i - 1].elev, g[i].elev), g[i + 1].elev),
                     Num(1, SmoothWindow))],
             i + 1)

\* for (let i = 1; i < routeGeometry.length - 1; i++) ...
SmoothElevations(g) == SmoothFrom(g, 2)

NoGeometry == [defined |-> FALSE, pts |-> <<>>]

\* the try block around the OSRM call: routeGeometry when it is left.
\* o is the outcome of the fetch: it rejects ("throws"), its body is not JSON
\* ("badjson"), is the JSON null ("null"), or is an object ("json") with
\* code, routes ("undef", "empty", "some") and routes[0].geometry ("undef":
\* no geometry, "nocoords": no coordinates, "notarray": coordinates without
\* map(), "array": coords).  Every throw is caught and leaves routeGeometry
\* undefined.
SnapGeometry(o, waypoints) ==
    IF o.kind # "json" THEN NoGeometry
    ELSE IF ~(o.code = "Ok" /\ o.routes = "some") THEN NoGeometry
    ELSE IF o.geometry # "array" THEN NoGeometry
    ELSE IF AnyNull(o.coords) THEN NoGeometry
    ELSE [defined |-> TRUE,
          pts |-> SmoothElevations(AssignElevations(o.coords, waypoints))]

\* if (!routeGeometry || routeGeometry.length < 10)
NeedsFallback(routeGeometry) ==
    ~routeGeometry.defined \/ Len(routeGeometry.pts) < MinGeometry

\* the polyline of the snap variant's 200 response
RouteGeometry(o, waypoints) ==
    LET routeGeometry == SnapGeometry(o, waypoints)
    IN  IF NeedsFallback(routeGeometry)
        THEN FallbackInterpolate(waypoints)
        ELSE routeGeometry.pts

-----------------------------------------------------------------------------
(* Density normalisation of the dense and extract variants *)

\* dense: waypoints.length < 100
DenseThreshold == 100

\* dense: Math.max(150, ...)
TargetFloor == 150

\* dense: waypoints.length * 3
TargetFactor == 3

\* extract: waypoints.length < 50
ExtractThreshold == 50

\* extract: Math.max(3, ...)
ExtractMinSteps == 3

\* extract: 6 / (waypoints.length / 30)
ExtractSteps == 6

\* extract: waypoints.length / 30
ExtractPer == 30

Threshold(v) == IF v = "dense" THEN DenseThreshold ELSE ExtractThreshold

\* dense: targetPoints
TargetPoints(n) == Max(TargetFloor, n * TargetFactor)

\* steps per segment for n waypoints
StepsPerSeg(v, n) ==
    IF v = "dense"
    THEN CeilDiv(TargetPoints(n), n)
    ELSE Max(ExtractMinSteps, CeilDiv(ExtractSteps * ExtractPer, n))

\* the points pushed for one pair (a, b)
DenseSegment(a, b, steps) ==
    [s \in 1..steps |->
        Point(Lerp(a.lat, b.lat, s - 1, steps),
              Lerp(a.lng, b.lng, s - 1, steps),
              Lerp(a.elev, b.elev, s - 1, steps))]

RECURSIVE DenseSegments(_, _, _)
DenseSegments(waypoints, i, steps) ==
    IF i >= Len(waypoints) THEN <<>>
    ELSE DenseSegment(waypoints[i], waypoints[i + 1], steps)
             \o DenseSegments(waypoints, i + 1, steps)

\* the interpolation loop without the push of the last waypoint
InterpolatedNoLast(v, waypoints) ==
    DenseSegments(waypoints, 1, StepsPerSeg(v, Len(waypoints)))

\* the interpolation loop and the push of the last waypoint
Interpolated(v, waypoints) ==
    Append(DenseSegments(waypoints, 1, StepsPerSeg(v, Len(waypoints))),
           waypoints[Len(waypoints)])

\* the waypoints of the 200 response (Len(waypoints) >= 2); a null element
\* makes a[0] or b[0] throw inside the loop
Normalize(v, waypoints) ==
    IF Len(waypoints) >= Threshold(v)
    THEN [threw |-> FALSE, pts |-> waypoints]
    ELSE IF AnyNull(waypoints)
    THEN [threw |-> TRUE, pts |-> <<>>]
    ELSE [threw |-> FALSE, pts |-> Interpolated(v, waypoints)]

-----------------------------------------------------------------------------
(* Inputs: the request, what the oracle answers, what OSRM answers *)

\* longest waypoint list the oracle returns to the snap variant
MaxWaypoints == 3

\* longest of the short waypoint lists the oracle returns to the dense and
\* extract variants
MaxShort == 5

\* longest waypoint list the oracle returns to the dense and extract variants
MaxDense == 101

\* longest OSRM geometry
MaxGeometry == 11

Variants == {"snap", "dense", "extract"}

Methods == {"OPTIONS", "GET", "POST"}

\* req.method, process.env.ANTHROPIC_API_KEY set or not, req.body an object
\* or absent, req.body.image truthy or not, req.body.mediaType
Requests ==
    { r \in [method : Methods, apiKey : BOOLEAN, body : {"absent", "object"},
             image : BOOLEAN, mediaType : {NoString, "image/png"}] :
        r.body = "absent" => (~r.image /\ r.mediaType = NoString) }

Supplied ==
    [route_name |-> "Flagstaff Loop", location |-> "Boulder, CO",
     confidence |-> Num(4, 5), notes |-> "a loop west of town",
     total_miles_estimate |-> Whole(12), turn_by_turn |-> TRUE]

Missing ==
    [route_name |-> NoString, location |-> NoString,
     confidence |-> Undefined, notes |-> NoString,
     total_miles_estimate |-> Undefined, turn_by_turn |-> FALSE]

\* the metadata the oracle's JSON carries
MetaCases ==
    {Supplied, Missing}
        \cup {[Supplied EXCEPT !.confidence = c] : c \in {Whole(0), Num(1, 2), Whole(1)}}
        \cup {[Supplied EXCEPT !.route_name = ""], [Supplied EXCEPT !.location = ""],
              [Supplied EXCEPT !.notes = ""], [Missing EXCEPT !.confidence = Whole(1)],
              [Missing EXCEPT !.notes = "blurry"]}

\* elevation_ft of waypoint i of n: all given, the first or the last at sea
\* level, or none given
ElevationOf(profile, i, n) ==
    CASE profile = "given"   -> Whole(5000 + 100 * (i - 1))
      [] profile = "first0"  -> Whole(IF i = 1 THEN 0 ELSE 100 * (i - 1))
      [] profile = "last0"   -> Whole(IF i = n THEN 0 ELSE 100 * i)
      [] profile = "missing" -> Undefined

\* key_waypoints of the snap variant: 10 units north each, and 10 units west
\* on every second leg
SnapWaypoints(n, profile) ==
    [i \in 1..n |->
        Point(Whole(40000 + 10 * (i - 1)), Whole(-105000 - 10 * ((i - 1) \div 2)),
              ElevationOf(profile, i, n))]

\* a waypoint list as parsed: absent, not an array (a string of 2 characters
\* or more), or an array
List(items) == [k |-> "array", items |-> items]

NoList == [k |-> "undef", items |-> <<>>]

NotAList == [k |-> "notarray", items |-> <<>>]

SnapLists ==
    {NoList, NotAList}
        \cup {List(SnapWaypoints(n, p)) :
                 n \in 0..MaxWaypoints, p \in {"given", "first0", "last0", "missing"}}
        \cup {List(<<JunkPoint, JunkPoint>>),
              List(<<SnapWaypoints(1, "given")[1], NullPoint>>),
              List(<<SnapWaypoints(1, "given")[1], JunkPoint,
                     SnapWaypoints(3, "given")[3]>>)}

\* waypoints of the dense and extract variants: [lat, lng, elevation]
DenseWaypoints(n) ==
    [i \in 1..n |->
        Point(Whole(40000 + 7 * i), Whole(-105000 + 3 * (i % 5)),
              Whole(5000 + 10 * (i % 7)))]

\* lengths of the oracle's lists: the short ones, and those around the two
\* thresholds
DenseLens ==
    (0..MaxShort) \cup ((ExtractThreshold - 1)..(ExtractThreshold + 1))
        \cup ((DenseThreshold - 1)..MaxDense)

DenseLists ==
    {NoList, NotAList}
        \cup {List(DenseWaypoints(n)) : n \in DenseLens}
        \cup {List(<<JunkPoint, JunkPoint>>),
              List(<<DenseWaypoints(1)[1], NullPoint>>),
              List([DenseWaypoints(MaxDense) EXCEPT ![2] = NullPoint]),
              List(<<Point(Whole(40000), Whole(-105000), Undefined),
                     Point(Whole(40010), Whole(-105000), Undefined)>>)}

\* the parsed oracle JSON: null, or an object
RouteInfo(meta, list) == [isNull |-> FALSE, meta |-> meta, waypoints |-> list]

NullInfo == [isNull |-> TRUE, meta |-> Missing, waypoints |-> NoList]

RouteInfos(v) ==
    {NullInfo}
        \cup {RouteInfo(m, l) : m \in MetaCases,
                                l \in IF v = "snap" THEN SnapLists ELSE DenseLists}

\* errText.substring(0, 300)
DetailsLimit == 300

\* textContent.text.substring(0, 500)
RawLimit == 500

\* lengths of the raw texts
TextLens == {0, 40, DetailsLimit, DetailsLimit + 1, RawLimit, RawLimit + 1}

NoOutcome ==
    [kind |-> "none", status |-> 0, len |-> 0, fenced |-> FALSE, info |-> NullInfo]

\* the oracle call: fetch rejects ("throws"); a non-success status with an
\* error text of len characters ("notok"); a body that is not JSON or has no
\* content array ("badjson"); no text item ("notext"); a text that is not
\* JSON ("garbage"); JSON after a line of prose ("prose"); JSON, fenced or
\* not ("json")
OracleOutcomes(v) ==
    {[NoOutcome EXCEPT !.kind = k] : k \in {"throws", "badjson", "notext"}}
        \cup {[NoOutcome EXCEPT !.kind = "notok", !.status = st, !.len = n] :
                 st \in {401, 529}, n \in TextLens}
        \cup {[NoOutcome EXCEPT !.kind = k, !.status = 200, !.len = n, !.fenced = f] :
                 k \in {"garbage", "prose"}, n \in TextLens \ {0}, f \in BOOLEAN}
        \cup {[NoOutcome EXCEPT !.kind = "json", !.status = 200, !.len = 40,
                                !.fenced = f, !.info = i] :
                 f \in BOOLEAN, i \in RouteInfos(v)}

\* JSON.parse(cleaned) returns: the text, with its fence stripped when it
\* starts with one, is JSON
Parses(o) == o.kind = "json"

\* the OSRM geometry: point i of a path beside the waypoints, [lng, lat]
OsrmCoords(n) ==
    [i \in 1..n |-> Coord(Whole(-105001 - (i \div 3)), Whole(40000 + 2 * i))]

\* the same path with its third point midway between the latitudes of the
\* first two waypoints, which share a longitude: equally near to both
TiedCoords(n) ==
    [OsrmCoords(n) EXCEPT ![3] = Coord(Whole(-105001), Whole(40005))]

NoOsrm ==
    [kind |-> "none", code |-> "", routes |-> "undef", geometry |-> "undef",
     coords |-> <<>>]

OsrmJson(code, routes, geometry, coords) ==
    [kind |-> "json", code |-> code, routes |-> routes, geometry |-> geometry,
     coords |-> coords]

\* the OSRM call
OsrmOutcomes ==
    {[NoOsrm EXCEPT !.kind = k] : k \in {"throws", "badjson", "null"}}
        \cup {OsrmJson(c, r, "array", OsrmCoords(MaxGeometry)) :
                 c \in {"Ok", "NoRoute", ""}, r \in {"undef", "empty", "some"}}
        \cup {OsrmJson("Ok", "some", g, <<>>) : g \in {"undef", "nocoords", "notarray"}}
        \cup {OsrmJson("Ok", "some", "array", OsrmCoords(n)) : n \in 0..MaxGeometry}
        \cup {OsrmJson("Ok", "some", "array", [OsrmCoords(n) EXCEPT ![2] = NullCoord]) :
                 n \in (MinGeometry - 1)..MaxGeometry}
        \cup {OsrmJson("Ok", "some", "array", [i \in 1..n |-> JunkCoord]) :
                 n \in (MinGeometry - 1)..MaxGeometry}
        \cup {OsrmJson("Ok", "some", "array", TiedCoords(n)) :
                 n \in MinGeometry..MaxGeometry}

-----------------------------------------------------------------------------
(* Responses.  keys are the members of the JSON body; a member that is not  *)
(* in keys holds a filler.                                                  *)

NoBody ==
    [status |-> 0, body |-> "empty", keys |-> {}, error |-> "", excerpt |-> 0,
     notes |-> NoString, route_name |-> NoString, location |-> NoString,
     confidence |-> Undefined, total_miles_estimate |-> Undefined,
     turn_by_turn |-> FALSE, waypoints |-> <<>>]

\* res.status(status).end()
End(status) == [NoBody EXCEPT !.status = status]

\* res.status(status).json({ error })
Error(status, error) ==
    [NoBody EXCEPT !.status = status, !.body = "json", !.keys = {"error"},
                   !.error = error]

\* res.status(status).json({ error, details | raw : an excerpt of len characters })
ErrorWith(status, error, key, len) ==
    [Error(status, error) EXCEPT !.keys = {"error", key}, !.excerpt = len]

\* res.status(422).json({ error, notes })
Unprocessable(error, notes) ==
    [Error(422, error) EXCEPT !.keys = {"error", "notes"}, !.notes = notes]

\* res.json() without res.status(): the status stays 200
ServerErrorNoStatus == Error(200, "Server error: ...")

\* the catch at the end of the handler
ServerError == Error(500, "Server error: ...")

\* the error messages of the three files
KeyMessage(v) ==
    IF v = "snap" THEN "API key not configured"
    ELSE "API key not configured. Add ANTHROPIC_API_KEY in Vercel Environment Variables."

ApiMessage(v) == IF v = "snap" THEN "AI API error" ELSE "AI API error (status ...)"

NoTextMessage(v) ==
    IF v = "snap" THEN "No response from AI" ELSE "No text response from AI"

ParseMessage(v) ==
    IF v = "snap" THEN "Failed to parse AI response"
    ELSE "Failed to parse route data from AI response"

\* the members of the 200 body
SuccessKeys(v) ==
    {"route_name", "location", "confidence", "notes", "waypoints"}
        \cup IF v = "snap" THEN {"total_miles_estimate", "turn_by_turn"} ELSE {}

\* routeInfo.confidence || 0.5
DefaultConfidence == Num(1, 2)

\* res.status(200).json({ route_name: ... || 'Extracted Route', ..., waypoints })
Success(v, meta, waypoints) ==
    [NoBody EXCEPT
        !.status = 200, !.body = "json", !.keys = SuccessKeys(v),
        !.route_name = StrOrElse(meta.route_name, "Extracted Route"),
        !.location = StrOrElse(meta.location, "Unknown"),
        !.confidence = OrElse(meta.confidence, DefaultConfidence),
        !.notes = StrOrElse(meta.notes, ""),
        !.total_miles_estimate =
            IF v = "snap" THEN OrElse(meta.total_miles_estimate, Whole(0))
            ELSE Undefined,
        !.turn_by_turn = (v = "snap" /\ meta.turn_by_turn),
        !.waypoints = waypoints]

-----------------------------------------------------------------------------
(* The handler *)

Init ==
    /\ variant \in Variants
    /\ req \in Requests
    /\ pc = "start"
    /\ step1 = NoOutcome
    /\ routeInfo = NullInfo
    /\ osrm = NoOsrm
    /\ calls = <<>>
    /\ sent = <<>>

\* the gate without its method check
GateAnyMethod(v, r) ==
    IF r.method = "OPTIONS" THEN End(200)
    ELSE IF ~r.apiKey THEN Error(500, KeyMessage(v))
    ELSE IF r.body = "absent" THEN ServerError
    ELSE IF ~r.image THEN Error(400, "No image provided")
    ELSE [NoBody EXCEPT !.body = "none"]

\* the response the handler returns before any outbound call, "none" when it
\* goes on to call the oracle.  Destructuring an absent req.body throws
\* inside the try.
GateResponse(v, r) ==
    IF r.method = "OPTIONS" THEN End(200)
    ELSE IF r.method # "POST" THEN Error(405, "Method not allowed")
    ELSE IF ~r.apiKey THEN Error(500, KeyMessage(v))
    ELSE IF r.body = "absent" THEN ServerError
    ELSE IF ~r.image THEN Error(400, "No image provided")
    ELSE [NoBody EXCEPT !.body = "none"]

\* the handler up to its first await: method, API key and image checks, then
\* the fetch of the oracle
Receive ==
    /\ pc = "start"
    /\ LET g == GateResponse(variant, req)
       IN  IF g.body = "none"
           THEN /\ calls' = Append(calls, "oracle")
                /\ pc' = "await_step1"
                /\ sent' = sent
           ELSE /\ sent' = Append(sent, g)
                /\ pc' = "done"
                /\ calls' = calls
    /\ UNCHANGED <<variant, req, step1, routeInfo, osrm>>

\* the response to an oracle answer that did not parse
Step1Failure(v, o) ==
    CASE o.kind = "notok" ->
            ErrorWith(o.status, ApiMessage(v), "details",
                      Substring(o.len, DetailsLimit))
      [] o.kind = "notext" -> Error(500, NoTextMessage(v))
      [] o.kind \in {"garbage", "prose"} ->
            ErrorWith(500, ParseMessage(v), "raw",
                      Substring(o.len, RawLimit))
      [] OTHER -> ServerError

\* the snap variant with waypoints.length < 1 as its count check
Step1SnapOffByOne(o) ==
    IF ~Parses(o) THEN Step1Failure("snap", o)
    ELSE IF o.info.isNull THEN ServerError
    ELSE IF \/ o.info.waypoints.k = "undef"
            \/ o.info.waypoints.k = "array" /\ Len(o.info.waypoints.items) < 1
         THEN Unprocessable("Could not identify enough waypoints", o.info.meta.notes)
    ELSE IF o.info.waypoints.k = "notarray" \/ AnyNull(o.info.waypoints.items)
         THEN ServerError
    ELSE [NoBody EXCEPT !.body = "osrm"]

\* snap variant, from the oracle's answer to the OSRM fetch or a response:
\* "osrm" when the handler goes on to call OSRM
Step1Snap(o) ==
    IF ~Parses(o) THEN Step1Failure("snap", o)
    ELSE IF o.info.isNull THEN ServerError
    ELSE IF \/ o.info.waypoints.k = "undef"
            \/ o.info.waypoints.k = "array" /\ Len(o.info.waypoints.items) < 2
         THEN Unprocessable("Could not identify enough waypoints", o.info.meta.notes)
    ELSE IF o.info.waypoints.k = "notarray" \/ AnyNull(o.info.waypoints.items)
         THEN ServerError
    ELSE [NoBody EXCEPT !.body = "osrm"]

\* the oracle fetch settles in the snap variant
Step1ReturnsSnap ==
    /\ pc = "await_step1"
    /\ variant = "snap"
    /\ \E o \in OracleOutcomes(variant) :
         LET r == Step1Snap(o)
         IN  /\ step1' = o
             /\ routeInfo' = IF Parses(o) THEN o.info ELSE routeInfo
             /\ IF r.body = "osrm"
                THEN /\ calls' = Append(calls, "osrm")
                     /\ pc' = "await_osrm"
                     /\ sent' = sent
                ELSE /\ sent' = Append(sent, r)
                     /\ pc' = "done"
                     /\ calls' = calls
    /\ UNCHANGED <<variant, req, osrm>>

\* the OSRM fetch settles: snapping or fallback, then the 200 response
OsrmReturns ==
    /\ pc = "await_osrm"
    /\ \E o \in OsrmOutcomes :
         /\ osrm' = o
         /\ sent' = Append(sent,
                Success(variant, routeInfo.meta,
                        RouteGeometry(o, routeInfo.waypoints.items)))
    /\ pc' = "done"
    /\ UNCHANGED <<variant, req, step1, routeInfo, calls>>

\* dense and extract variants, from the oracle's answer to the response
Step1Dense(v, o) ==
    IF ~Parses(o) THEN Step1Failure(v, o)
    ELSE IF o.info.isNull THEN ServerError
    ELSE IF o.info.waypoints.k # "array" \/ Len(o.info.waypoints.items) < 2
         THEN Unprocessable("AI could not extract a valid route from this image",
                            StrOrElse(o.info.meta.notes, "No details available"))
    ELSE LET n == Normalize(v, o.info.waypoints.items)
         IN  IF n.threw THEN ServerError
             ELSE Success(v, o.info.meta, n.pts)

\* the oracle fetch settles in the dense and extract variants
Step1ReturnsDense ==
    /\ pc = "await_step1"
    /\ variant # "snap"
    /\ \E o \in OracleOutcomes(variant) :
         /\ step1' = o
         /\ routeInfo' = IF Parses(o) THEN o.info ELSE routeInfo
         /\ sent' = Append(sent, Step1Dense(variant, o))
    /\ pc' = "done"
    /\ UNCHANGED <<variant, req, osrm, calls>>

Next == Receive \/ Step1ReturnsSnap \/ Step1ReturnsDense \/ OsrmReturns

Spec == Init /\ [][Next]_vars

-----------------------------------------------------------------------------
(* Properties *)

Done == pc = "done"

\* the response, once the request is done
Response == sent[1]

\* the waypoint list the oracle supplied
Waypoints == routeInfo.waypoints.items

\* a waypoint with numeric latitude and longitude
Numeric(p) == p.kind = "ok" /\ IsNum(p.lat) /\ IsNum(p.lng)

\* at least 2 waypoints, all with numeric latitude and longitude
ValidWaypoints(w) == Len(w) >= 2 /\ \A i \in 1..Len(w) : Numeric(w[i])

\* the snap variant called OSRM and answered
OsrmAnswered == variant = "snap" /\ Done /\ osrm.kind # "none"

\* the oracle's answer parsed into an object
Parsed == Parses(step1) /\ ~step1.info.isNull

\* the engine answered Ok with a route whose geometry is a list of 10 or
\* more [lng, lat] pairs
EngineUsable(o) ==
    /\ o.kind = "json" /\ o.code = "Ok" /\ o.routes = "some"
    /\ o.geometry = "array"
    /\ Len(o.coords) >= MinGeometry
    /\ \A i \in 1..Len(o.coords) :
         o.coords[i].kind = "ok" /\ IsNum(o.coords[i].c0) /\ IsNum(o.coords[i].c1)

\* the (lat, lng) pairs of a polyline, and of the engine's geometry
LatLng(pts) == [i \in 1..Len(pts) |-> <<pts[i].lat, pts[i].lng>>]

EngineLatLng(o) == [i \in 1..Len(o.coords) |-> <<o.coords[i].c1, o.coords[i].c0>>]

\* the response carries the engine's geometry
IsEngineGeometry(r) ==
    osrm.geometry = "array" /\ LatLng(r.waypoints) = EngineLatLng(osrm)

\* C1: in the snap variant, with 2 or more waypoints of numeric lat/lng, every
\* outcome of the OSRM call other than a usable geometry (the fetch throws,
\* the body is not JSON, code is not Ok, no routes, geometry missing or
\* malformed, fewer than 10 points) ends in one 200 response whose polyline
\* is the fallback interpolation of the waypoints.
C1_EngineFailureFallsBack ==
    (OsrmAnswered /\ ValidWaypoints(Waypoints) /\ ~EngineUsable(osrm))
        => /\ Len(sent) = 1
           /\ Response.status = 200
           /\ Response.waypoints = FallbackInterpolate(Waypoints)

\* C2: the polyline of the snap variant's response is the engine's geometry
\* exactly when the engine answered Ok with a route of 10 or more points,
\* and the fallback interpolation otherwise, whatever the number of waypoints
\* and the fields of the request body.
C2_ChoiceByEngineOutputAlone ==
    (OsrmAnswered /\ ValidWaypoints(Waypoints))
        => /\ IsEngineGeometry(Response) <=> EngineUsable(osrm)
           /\ ~EngineUsable(osrm)
                => Response.waypoints = FallbackInterpolate(Waypoints)

\* the polyline the handler builds when nothing fails
FullSequence ==
    IF variant = "snap" THEN RouteGeometry(osrm, Waypoints)
    ELSE Normalize(variant, Waypoints).pts

\* 200 with the route metadata and the whole point sequence
IsSuccess(r) ==
    /\ r.status = 200 /\ r.body = "json"
    /\ {"route_name", "location", "confidence", "notes", "waypoints"} \subseteq r.keys
    /\ "error" \notin r.keys
    /\ Parsed /\ Waypoints # <<>> /\ r.waypoints = FullSequence

\* a non-200 status, an error message, no waypoints
IsStructuredError(r) ==
    /\ r.status # 200 /\ r.body = "json"
    /\ "error" \in r.keys /\ r.error # ""
    /\ "waypoints" \notin r.keys /\ r.waypoints = <<>>

\* C3 (as claimed): every request handled to completion sends exactly one
\* response, a success or a structured error.
C3_SuccessOrStructuredError ==
    /\ Len(sent) = (IF Done THEN 1 ELSE 0)
    /\ Done => (IsSuccess(Response) \/ IsStructuredError(Response))

\* C3 (amended): every request handled to completion sends exactly one
\* response; for an OPTIONS request it is the empty 200, for every other
\* request a success or a structured error.
C3_OneResponsePerRequest ==
    /\ Len(sent) = (IF Done THEN 1 ELSE 0)
    /\ Done => IF req.method = "OPTIONS"
               THEN Response = End(200)
               ELSE IsSuccess(Response) \/ IsStructuredError(Response)

\* C3 witness: a POST answered with one success whose polyline is longer
\* than the waypoint list it was built from
C3_Witness ==
    /\ Done /\ req.method = "POST" /\ IsSuccess(Response)
    /\ Len(Response.waypoints) > Len(Waypoints)

\* C4: the point sequence of every 200 response has 2 points or more, in
\* every variant, for every oracle output that passed the waypoint-count
\* check and every OSRM outcome.
C4_AtLeastTwoPoints ==
    (Done /\ Response.status = 200 /\ "waypoints" \in Response.keys)
        => Len(Response.waypoints) >= 2

\* a point equal to a waypoint on latitude, longitude and elevation
SamePoint(p, w) == p.lat = w.lat /\ p.lng = w.lng /\ p.elev = w.elev

\* the points the fallback pushes before the last one
RECURSIVE TotalSteps(_, _)
TotalSteps(w, i) ==
    IF i >= Len(w) THEN 0 ELSE StepCount(w[i], w[i + 1]) + TotalSteps(w, i + 1)

\* C5: when the fallback builds the response from valid waypoints that carry
\* an elevation, its first point equals the first waypoint and its last point
\* the last waypoint on latitude, longitude and elevation, and the last
\* waypoint is appended once.
C5_FallbackEndpointsExact ==
    (/\ OsrmAnswered /\ ValidWaypoints(Waypoints)
     /\ \A i \in 1..Len(Waypoints) : IsNum(Waypoints[i].elev)
     /\ NeedsFallback(SnapGeometry(osrm, Waypoints)))
        => LET out == Response.waypoints
               n == Len(Waypoints)
           IN  /\ SamePoint(out[1], Waypoints[1])
               /\ SamePoint(out[Len(out)], Waypoints[n])
               /\ Len(out) = TotalSteps(Waypoints, 1) + 1

\* C6: the density normalizer returns at least the variant's threshold of
\* points (100 dense, 50 extract) for every input of 2 or more points, and
\* at least the target max(150, 3n) when the dense variant resamples.
C6_MinimumDensity ==
    (/\ Done /\ variant # "snap" /\ IsSuccess(Response)
     /\ ValidWaypoints(Waypoints))
        => /\ Len(Response.waypoints) >= Threshold(variant)
           /\ (variant = "dense" /\ Len(Waypoints) < DenseThreshold)
                => Len(Response.waypoints) >= TargetPoints(Len(Waypoints))

\* a string the oracle supplied
Given(s) == s # NoString /\ s # ""

\* C7: a waypoint list of fewer than 2 entries ends in 422 with the oracle's
\* notes, a list with an entry lacking numeric latitude or longitude ends in
\* an error; in both cases OSRM is not called and no 200 is sent.
C7_ValidationGate ==
    (Done /\ Parsed)
        => /\ (\/ routeInfo.waypoints.k = "undef"
               \/ routeInfo.waypoints.k = "array" /\ Len(Waypoints) < 2)
                => /\ Response.status = 422
                   /\ IsStructuredError(Response)
                   /\ Given(routeInfo.meta.notes)
                        => Response.notes = routeInfo.meta.notes
                   /\ calls = <<"oracle">>
           /\ (/\ routeInfo.waypoints.k = "array"
               /\ Len(Waypoints) >= 2
               /\ \E i \in 1..Len(Waypoints) : ~Numeric(Waypoints[i]))
                => /\ IsStructuredError(Response)
                   /\ calls = <<"oracle">>

HasExcerpt(r, key, limit) ==
    /\ key \in r.keys
    /\ r.excerpt <= limit /\ r.excerpt <= step1.len
    /\ step1.len <= limit => r.excerpt = step1.len

\* the outbound calls are the oracle call, then at most one OSRM call, and
\* OSRM is called only after a parsed answer with 2 or more waypoints
CallsInOrder ==
    /\ calls \in {<<>>, <<"oracle">>, <<"oracle", "osrm">>}
    /\ calls = <<"oracle", "osrm">>
         => /\ variant = "snap" /\ Parsed
            /\ routeInfo.waypoints.k = "array" /\ Len(Waypoints) >= 2

\* C9 (as claimed): the oracle is called at most once; a non-success status,
\* no text content or an unparsable text ends the request with an error
\* response carrying a truncated excerpt of the raw text, and OSRM is not
\* called; OSRM is called at most once, after a parsed answer with 2 or more
\* waypoints.
C9_OrderingNoRetry ==
    /\ CallsInOrder
    /\ (Done /\ step1.kind \in {"notok", "notext", "garbage", "prose"})
         => /\ IsStructuredError(Response)
            /\ Response.status = (IF step1.kind = "notok" THEN step1.status ELSE 500)
            /\ \/ HasExcerpt(Response, "details", DetailsLimit)
               \/ HasExcerpt(Response, "raw", RawLimit)
            /\ calls = <<"oracle">>

\* C9 (amended): as claimed, except that the excerpt comes only with a
\* non-success status (details, 300 characters) and with an unparsable text
\* (raw, 500 characters); without text content the error response carries
\* its message alone.
C9_OrderingNoRetryExcerpts ==
    /\ CallsInOrder
    /\ (Done /\ step1.kind \in {"notok", "notext", "garbage", "prose"})
         => /\ IsStructuredError(Response)
            /\ Response.status = (IF step1.kind = "notok" THEN step1.status ELSE 500)
            /\ CASE step1.kind = "notok" ->
                       HasExcerpt(Response, "details", DetailsLimit)
                 [] step1.kind = "notext" -> Response.keys = {"error"}
                 [] OTHER -> HasExcerpt(Response, "raw", RawLimit)
            /\ calls = <<"oracle">>

\* C9 witness: OSRM called once after the oracle, and the request answered
C9_Witness ==
    /\ Done /\ calls = <<"oracle", "osrm">> /\ Response.status = 200
    /\ Len(Waypoints) = 2

\* C10: in every 200 response each of name, location, confidence and notes
\* is the value the oracle supplied when it supplied one (any confidence in
\* [0, 1]) and the placeholder otherwise.
C10_MetadataAsSupplied ==
    (Done /\ Response.status = 200 /\ "route_name" \in Response.keys)
        => LET m == routeInfo.meta
           IN  /\ Response.route_name =
                    (IF Given(m.route_name) THEN m.route_name ELSE "Extracted Route")
               /\ Response.location =
                    (IF Given(m.location) THEN m.location ELSE "Unknown")
               /\ Response.confidence =
                    (IF IsNum(m.confidence) THEN m.confidence ELSE DefaultConfidence)
               /\ Response.notes = (IF Given(m.notes) THEN m.notes ELSE "")

\* the snap variant answered with the engine's geometry: valid waypoints, a
\* usable engine answer
Snapped == OsrmAnswered /\ ValidWaypoints(Waypoints) /\ EngineUsable(osrm)

\* the elevations the nearest-neighbour assignment gave the engine's points,
\* before the smoothing pass
PreSmoothing == AssignElevations(osrm.coords, Waypoints)

\* the unweighted mean of three elevations
Mean3(a, b, c) == Mul(Add(Add(a, b), c), Num(1, 3))

\* C11: after the smoothing pass every interior point of the snapped
\* polyline has the unweighted mean of the pre-smoothing elevations of its
\* predecessor, itself and its successor, and the first and last points keep
\* their nearest-neighbour elevation.
C11_SmoothingFromSnapshot ==
    Snapped
        => LET pre == PreSmoothing
               out == Response.waypoints
               n == Len(pre)
           IN  /\ Len(out) = n
               /\ out[1].elev = pre[1].elev
               /\ out[n].elev = pre[n].elev
               /\ \A i \in 2..(n - 1) :
                    out[i].elev = Mean3(pre[i - 1].elev, pre[i].elev, pre[i + 1].elev)

\* the squared distance from engine point c to waypoint w
DistTo(c, w) == SquaredDist(w.lat, w.lng, c.c1, c.c0)

\* the handler put the default elevation in place of a waypoint's: a waypoint
\* without a truthy elevation_ft, or, when the engine's geometry is used, an
\* engine point that no waypoint is near to (every distance NaN), which keeps
\* the initial nearestElev
DefaultSubstituted ==
    LET w == Waypoints
    IN  \/ \E j \in 1..Len(w) : ~Truthy(w[j].elev)
        \/ /\ ~NeedsFallback(SnapGeometry(osrm, w))
           /\ \E i \in 1..Len(osrm.coords) :
                \A j \in 1..Len(w) : ~IsNum(DistTo(osrm.coords[i], w[j]))

\* v lies between the least and the greatest elevation of the waypoints w
WithinInputRange(v, w) ==
    /\ IsNum(v)
    /\ \E j \in 1..Len(w) : Leq(w[j].elev, v)
    /\ \E j \in 1..Len(w) : Leq(v, w[j].elev)

\* the first waypoint of w at the least distance from engine point c
FirstNearest(c, w) ==
    CHOOSE j \in 1..Len(w) :
        /\ \A k \in 1..(j - 1) : ~Leq(DistTo(c, w[k]), DistTo(c, w[j]))
        /\ \A k \in (j + 1)..Len(w) : Leq(DistTo(c, w[j]), DistTo(c, w[k]))

\* C12: when every waypoint carries an elevation and no default is
\* substituted, every point of the returned polyline has an elevation, and
\* it lies between the least and the greatest waypoint elevation, on the
\* snapped branch and on the fallback branch; on the snapped branch the
\* elevation assigned to an engine point before smoothing is that of the
\* first waypoint at the least distance, and the first and last points
\* return it.
C12_ElevationWithinInputRange ==
    (OsrmAnswered /\ Len(Waypoints) >= 2 /\ ~DefaultSubstituted)
        => LET w == Waypoints
               out == Response.waypoints
           IN  /\ Response.status = 200
               /\ Len(out) >= 2
               /\ \A i \in 1..Len(out) : WithinInputRange(out[i].elev, w)
               /\ ~NeedsFallback(SnapGeometry(osrm, w))
                    => /\ \A i \in 1..Len(osrm.coords) :
                            PreSmoothing[i].elev
                                = w[FirstNearest(osrm.coords[i], w)].elev
                       /\ out[1].elev = w[FirstNearest(osrm.coords[1], w)].elev
                       /\ out[Len(out)].elev
                            = w[FirstNearest(osrm.coords[Len(out)], w)].elev

\* C12 witness: the snapped branch answered, no default substituted, with an
\* engine point equally near to two waypoints of different elevations, and
\* smoothed elevations that are not all equal
C12_Witness ==
    /\ Snapped /\ ~DefaultSubstituted
    /\ \E i \in 1..Len(osrm.coords) : \E j, k \in 1..Len(Waypoints) :
         /\ j < k
         /\ j = FirstNearest(osrm.coords[i], Waypoints)
         /\ DistTo(osrm.coords[i], Waypoints[j]) = DistTo(osrm.coords[i], Waypoints[k])
         /\ Waypoints[j].elev # Waypoints[k].elev
    /\ \E i \in 1..Len(Response.waypoints) :
         Response.waypoints[i].elev # Response.waypoints[1].elev

\* a sequence of route points: numeric latitude, longitude and elevation
RoutePoints(w) == \A i \in 1..Len(w) : Numeric(w[i]) /\ IsNum(w[i].elev)

\* every point of a occurs in b, in the order of a, the first at the start of
\* b and the last at its end: a is b taken at some fixed stride
Embeds(a, b) ==
    \E k \in 1..Len(b) :
        /\ Len(b) = (Len(a) - 1) * k + 1
        /\ \A i \in 1..Len(a) : b[(i - 1) * k + 1] = a[i]

\* the dense or extract variant ran its normalizer on a list of 2 or more
\* route points
Normalized ==
    /\ Done /\ variant # "snap" /\ Parsed
    /\ routeInfo.waypoints.k = "array"
    /\ Len(Waypoints) >= 2 /\ RoutePoints(Waypoints)

\* C13: the density normalizer's output contains every input point in input
\* order and ends with the final input point, pushed once; an input at or
\* above the threshold is returned unchanged, and normalizing it again
\* returns the same sequence; an input below the threshold gives a strictly
\* longer output.
C13_NormalizerKeepsPoints ==
    Normalized
        => LET inp == Waypoints
               out == Response.waypoints
               n == Len(inp)
               m == Len(out)
           IN  /\ Response.status = 200
               /\ m >= n
               /\ Embeds(inp, out)
               /\ out[m] = inp[n]
               /\ inp[n - 1] # inp[n] => out[m - 1] # inp[n]
               /\ n >= Threshold(variant)
                    => /\ out = inp
                       /\ Normalize(variant, out) = [threw |-> FALSE, pts |-> out]
               /\ n < Threshold(variant) => m > n

\* C13 witness: the dense variant resampled 3 route points into a longer
\* sequence that ends with the third
C13_Witness ==
    /\ Normalized /\ variant = "dense" /\ Len(Waypoints) = 3
    /\ Len(Response.waypoints) > 3
    /\ Response.waypoints[Len(Response.waypoints)] = Waypoints[3]

=============================================================================
